---- MODULE Spec2Model ----
(***************************************************************************)
(* A model of swyft/lightning/components.py: the Zarr-backed sample store  *)
(* (ZarrStore: init, set_length, simulate, _simulate_batch and the helper  *)
(* get_index_slices) and the Trace / LazyValue / Simulator engine.         *)
(*                                                                         *)
(* Rows are numbered from 0 as in the source; TLA+ sequences are numbered  *)
(* from 1, so row j of an array is cells[j + 1].                           *)
(***************************************************************************)
EXTENDS Integers, Sequences, FiniteSets, TLC

\* ------------------------------------------------------------------ bounds
\* Largest store length N that init and set_length are called with.
MaxN == 3
\* Largest chunk_size that init is called with.
MaxChunk == 2
\* Largest batch_size and max_sims that simulate is called with.
MaxBatch == 2
\* The history counter writes counts up to HistCap and stays there.
HistCap == 2
\* The number of times forward reads .value of a LazyValue it holds.
MaxValueCalls == 2
\* The number of prefix scopes forward opens in one run.
MaxScopes == 2
\* Largest row index in a list that get_index_slices is called with.
MaxIdx == 10
\* Most variables in a Samples store, and the largest leading-dimension size.
MaxVars == 3
MaxLen == 4
\* Longest store a dataset iterates over, and the most loader workers.
MaxStore == 4
MaxWorkers == 3
\* Most rows in a wrapped dataset, and the largest repeat factor.
MaxRows == 11
MaxRepeat == 9

\* -------------------------------------------------------- program constants
\* sim_status value of a row that still needs a simulation (sims_required).
EMPTY == 0
\* sim_status value written by _simulate_batch.
FILLED == 1

VARIABLES
    hasData,     \* 'data' in self.root.keys()
    data,        \* self.root['data']: variable name -> array
    sim_status,  \* self.root['meta/sim_status']
    attrs,       \* self.data.attrs: <<>> or <<chunk_size>>
    meta,        \* array metadata fixed at creation: chunk length, shapes, dtypes
    lock,        \* self.lock: 0 when free, else the participant holding it
    pc,          \* participant -> position in the operation it runs
    call,        \* participant -> the arguments of the call it is in (NoCall when idle)
    loc,         \* participant -> the local variables of simulate/_simulate_batch
    result,      \* participant -> its last finished call and how it ended
    reserved,    \* history: row -> participants whose idx selected the row
    writes,      \* history: variable -> row -> data writes since the row was created (capped at HistCap)
    wasFilled,   \* history: row -> the row index has been FILLED at some time
    paired,      \* history: variable -> row -> the sample value whose batch position was paired with the row
    shrunk,      \* history: a set_length has made the store shorter
    trace,       \* the Trace of the current run: name -> value
    prefix,      \* Trace._prefix
    scopes,      \* the prefix scopes forward is in, outermost first: each one's _prefix
                 \* field, and as history its argument and the prefix before it was entered
    opened,      \* how many prefix scopes forward has opened in the current run
    invalid_names, \* history: forward has called sample with names that are no str and no list
    fn_out_names, \* node -> LazyValue._fn_out_names of its LazyValues (<<>> before registration)
    targets,     \* Trace._targets: [given |-> FALSE] for None, else the list of names
    eval_log_probs, \* Trace._eval_log_probs
    conditions,  \* the conditions the current run was given, after on_before_forward
    rpc,         \* position in Simulator._run
    registered,  \* how many nodes of the DAG forward has registered so far
    value_calls, \* how many times forward has read a .value so far
    forward_calls, \* history: invocations of forward in the current run
    calls,       \* history: node -> invocations of its function in the current run
    evals,       \* history: LazyValue -> evaluate() calls on it in the current run
    fresh,       \* history: the LazyValues whose first evaluate() found their name absent
    order,       \* history: the nodes in the order their functions were invoked
    returned,    \* history: LazyValue -> the values evaluate() has returned for it
    run_result,  \* how the last _run ended, and the mapping it returned
    pure_fn,     \* the function last called on its own ("none" before any call)
    pure_in,     \* the argument of that call
    pure_out     \* what that call returned

storeVars == <<hasData, data, sim_status, attrs, meta>>
procVars == <<lock, pc, call, loc, result>>
histVars == <<reserved, writes, wasFilled, paired, shrunk>>
zarrVars == <<storeVars, procVars, histVars>>
pureVars == <<pure_fn, pure_in, pure_out>>
simVars == <<trace, prefix, scopes, opened, invalid_names, fn_out_names, targets, eval_log_probs, conditions, rpc,
             registered, value_calls, forward_calls, calls, evals, fresh, order, returned,
             run_result>>
vars == <<hasData, data, sim_status, attrs, meta, lock, pc, call, loc, result,
          reserved, writes, wasFilled, paired, shrunk,
          trace, prefix, scopes, opened, invalid_names, fn_out_names, targets, eval_log_probs, conditions, rpc,
          registered, value_calls, forward_calls, calls, evals, fresh, order, returned,
          run_result, pure_fn, pure_in, pure_out>>

\* ------------------------------------------------------------------ helpers
Min(a, b) == IF a <= b THEN a ELSE b
Max(a, b) == IF a >= b THEN a ELSE b

\* The store's variables, in the order of shapes.keys() / data.items().
Keys == <<"x", "z">>
KeySet == {Keys[i] : i \in 1..Len(Keys)}

Rows == 0..(MaxN - 1)

\* The zero a freshly created data array is filled with (root.zeros).
Zero == <<>>

\* What the external sampler sample_fn returns to participant p at batch
\* position pos of variable k: a value that names all three, so that a row
\* filled from another position, variable or participant is told apart.
SampleVal(p, k, pos) == <<p, k, pos>>

\* One (shapes, dtypes) argument of init.
Schemas == <<
    [shapes |-> [x |-> "()", z |-> "(2,)"], dtypes |-> [x |-> "f8", z |-> "f8"]],
    [shapes |-> [x |-> "()", z |-> "(3,)"], dtypes |-> [x |-> "f8", z |-> "f8"]],
    [shapes |-> [x |-> "()", z |-> "(2,)"], dtypes |-> [x |-> "f4", z |-> "f8"]] >>
SchemaSet == {Schemas[i] : i \in 1..Len(Schemas)}

\* RECURSIVE helper: the elements s[i], i >= from, whose mask[i] equals want (numpy boolean indexing).
RECURSIVE Pick(_, _, _, _)
Pick(s, mask, want, from) ==
    IF from > Len(s) THEN <<>>
    ELSE (IF mask[from] = want THEN <<s[from]>> ELSE <<>>) \o Pick(s, mask, want, from + 1)

\* ------------------------------------------------------------- zarr arrays
\* An array is [len |-> its first dimension, cells |-> the contents of its
\* stored chunks]. The chunks hold whole multiples of the chunk length, so
\* cells may be longer than len: what lies past len is not readable.

\* math.ceil(n / c)
NChunks(n, c) == (n + c - 1) \div c

\* root.zeros(..., shape = (n, ...), chunks = (c, ...))
ZarrZeros(n, c, fill) ==
    [len |-> n, cells |-> [i \in 1..(NChunks(n, c) * c) |-> fill]]

\* Faulty variant of ZarrResize: a resize that drops what the array held.
ZarrResizeForgets(a, n, c, fill) == ZarrZeros(n, c, fill)

\* Array.resize(n, ...): chunks that lie wholly outside the new shape are
\* deleted; the chunk on the boundary is kept as it is, so what it holds past
\* the new length comes back when the array is grown again. New chunks read
\* as the fill value.
ZarrResize(a, n, c, fill) ==
    [len |-> n,
     cells |-> [i \in 1..(NChunks(n, c) * c) |->
                  IF i <= Len(a.cells) THEN a.cells[i] ELSE fill]]

\* The bounds of a[j0:j1] after slice normalisation against the length.
SliceLo(a, j0) == Min(j0, a.len)
SliceHi(a, j0, j1) == Max(Min(j1, a.len), Min(j0, a.len))

\* a[j0:j1] = v for a scalar v
SetSliceScalar(a, j0, j1, v) ==
    [a EXCEPT !.cells = [i \in 1..Len(a.cells) |->
        IF SliceLo(a, j0) < i /\ i <= SliceHi(a, j0, j1) THEN v ELSE a.cells[i]]]

\* a[j0:j1] = vals is refused unless vals has the shape of the selection.
SliceFits(a, j0, j1, vals) == SliceHi(a, j0, j1) - SliceLo(a, j0) = Len(vals)

\* a[j0:j1] = vals for an array vals of the selection's shape
SetSliceArray(a, j0, j1, vals) ==
    [a EXCEPT !.cells = [i \in 1..Len(a.cells) |->
        IF SliceLo(a, j0) < i /\ i <= SliceHi(a, j0, j1)
        THEN vals[i - SliceLo(a, j0)] ELSE a.cells[i]]]

\* The readable rows of an array: a[:]
Read(a) == [i \in 1..a.len |-> a.cells[i]]

\* ------------------------------------------------------- get_index_slices
\* Faulty variant of Mask: only the first index is selected.
MaskFirstOnly(residual_idx) == [i \in 1..Len(residual_idx) |-> i = 1]

\* mask = (residual_idx - residual_idx[0] - np.arange(len(residual_idx)) == 0)
Mask(residual_idx) ==
    [i \in 1..Len(residual_idx) |-> residual_idx[i] - residual_idx[1] - (i - 1) = 0]

\* One pass of the while loop of get_index_slices, repeated until residual_idx is empty.
RECURSIVE get_index_slices_loop(_, _, _)
get_index_slices_loop(residual_idx, pointer, slices) ==
    IF Len(residual_idx) = 0 THEN slices
    ELSE LET mask == Mask(residual_idx)
             sel  == Pick(residual_idx, mask, TRUE, 1)
             slc1 == <<sel[1], sel[Len(sel)] + 1>>
             slc2 == <<pointer, pointer + Len(sel)>>
         IN get_index_slices_loop(Pick(residual_idx, mask, FALSE, 1),
                                  pointer + Len(sel),
                                  Append(slices, <<slc2, slc1>>))

\* get_index_slices(idx): the list of [[batch from, batch to], [row from, row to]].
get_index_slices(idx) == get_index_slices_loop(idx, 0, <<>>)

\* ------------------------------------------------------ ZarrStore, queries
\* __len__ raises (assert all([n==N for n in ns])) when the data arrays disagree.
LenRaises == hasData /\ \E k \in KeySet : data[k].len # data[Keys[1]].len

\* __len__: 0 without a 'data' group, else the length of the first data array.
StoreLen == IF ~hasData THEN 0 ELSE data[Keys[1]].len

\* sims_required: sum(sim_status[:] == 0)
sims_required == Cardinality({i \in 1..sim_status.len : sim_status.cells[i] = EMPTY})

\* Faulty variant of FirstEmpty: the highest-indexed EMPTY rows are taken.
LastEmpty(num_sims) ==
    LET arange == [i \in 1..sim_status.len |-> i - 1]
        isEmpty == [i \in 1..sim_status.len |-> sim_status.cells[i] = EMPTY]
        all == Pick(arange, isEmpty, TRUE, 1)
    IN SubSeq(all, Len(all) - Min(num_sims, Len(all)) + 1, Len(all))

\* Faulty variant of FirstEmpty: the first rows, whatever their status.
FirstRows(num_sims) ==
    [i \in 1..Min(num_sims, sim_status.len) |-> i - 1]

\* np.arange(len(sim_status))[sim_status[:]==0][:num_sims]
FirstEmpty(num_sims) ==
    LET arange == [i \in 1..sim_status.len |-> i - 1]
        isEmpty == [i \in 1..sim_status.len |-> sim_status.cells[i] = EMPTY]
        all == Pick(arange, isEmpty, TRUE, 1)
    IN SubSeq(all, 1, Min(num_sims, Len(all)))

\* num_sims = min(batch_size, self.sims_required)
NumSims(batch_size) == Min(batch_size, sims_required)

\* Faulty variant of SimulateContinues: the loop stops one row early.
SimulateStopsEarly(capped, max_sims, total_sims) ==
    sims_required > 1 /\ ~(capped /\ total_sims >= max_sims)

\* The loop test of simulate: rows are still EMPTY and the cap is not reached.
SimulateContinues(capped, max_sims, total_sims) ==
    sims_required > 0 /\ ~(capped /\ total_sims >= max_sims)

\* Faulty variants of LockFree: a lock that excludes nobody, and a lock that
\* is never granted.
LockExcludesNobody == TRUE
LockNeverGranted == FALSE

\* with self.lock: the lock is granted only while no participant holds it.
LockFree == lock = 0

\* Faulty variant of ContainsArray: root.zeros overwrites what exists.
ContainsArrayIgnored == FALSE

\* root.zeros raises ContainsArrayError when the array exists already.
ContainsArray == hasData

\* Faulty variant of ShrinkRefused: the length check is missing.
ShrinkNeverRefused(N, clubber) == FALSE

\* set_length refuses to shrink: N < len(self) and not clubber
ShrinkRefused(N, clubber) == N < StoreLen /\ ~clubber

\* init returns at once ("Already initialized") when len(self) > 0
AlreadyInitialized == StoreLen > 0

\* The assertions _init_shapes makes about arrays that exist already.
InitShapesConsistent(N, chunk_size, schema) ==
    /\ \A k \in KeySet :
          /\ data[k].len = N /\ meta.schema.shapes[k] = schema.shapes[k]
          /\ meta.chunks = chunk_size
          /\ meta.schema.dtypes[k] = schema.dtypes[k]
    /\ sim_status.len = N
    /\ attrs = <<chunk_size>>

\* samples[k][i0:i1] of the batch of num_sims rows the sampler returned to p
SampleSlice(p, k, num_sims, i0, i1) ==
    [t \in 1..(Max(Min(i1, num_sims), Min(i0, num_sims)) - Min(i0, num_sims)) |->
        SampleVal(p, k, Min(i0, num_sims) + t - 1)]

\* ------------------------------------------------------- participants' state
NoCall == [op |-> "none", N |-> 0, chunk_size |-> 0, schema |-> Schemas[1],
           clubber |-> FALSE, capped |-> FALSE, max_sims |-> 0, batch_size |-> 0]
NoLoc == [total_sims |-> 0, num_sims |-> 0, slices |-> <<>>, ki |-> 0]
NoResult == [op |-> "none", outcome |-> "none", capped |-> FALSE]
NoArray == [len |-> 0, cells |-> <<>>]
NoMeta == [chunks |-> 0, schema |-> Schemas[1]]

\* The history counter writes stops counting at HistCap.
Bump(n) == Min(n + 1, HistCap)

\* The state of a set of participants before any of them has called anything.
InitProcs(procs) ==
    /\ lock = 0
    /\ pc = [p \in procs |-> "idle"]
    /\ call = [p \in procs |-> NoCall]
    /\ loc = [p \in procs |-> NoLoc]
    /\ result = [p \in procs |-> NoResult]

InitHist ==
    /\ reserved = [j \in Rows |-> {}]
    /\ writes = [k \in KeySet |-> [j \in Rows |-> 0]]
    /\ wasFilled = [j \in Rows |-> FALSE]
    /\ paired = [k \in KeySet |-> [j \in Rows |-> Zero]]
    /\ shrunk = FALSE

\* ZarrStore.__init__ on a fresh directory: an empty root group.
InitEmptyStore ==
    /\ hasData = FALSE
    /\ data = [k \in KeySet |-> NoArray]
    /\ sim_status = NoArray
    /\ attrs = <<>>
    /\ meta = NoMeta

\* What _init_shapes creates on an empty root group.
CreatedData(N, chunk_size) == [k \in KeySet |-> ZarrZeros(N, chunk_size, Zero)]
CreatedStatus(N, chunk_size) == ZarrZeros(N, chunk_size, EMPTY)
CreatedMeta(chunk_size, schema) == [chunks |-> chunk_size, schema |-> schema]

\* Participant p's call op ends with outcome: "ok" or the exception raised.
Finish(p, op, outcome, capped) ==
    /\ pc' = [pc EXCEPT ![p] = "idle"]
    /\ call' = [call EXCEPT ![p] = NoCall]
    /\ loc' = [loc EXCEPT ![p] = NoLoc]
    /\ result' = [result EXCEPT ![p] = [op |-> op, outcome |-> outcome, capped |-> capped]]

\* ---------------------------------------------------------- ZarrStore.init
init(p, N, chunk_size, schema) ==
    /\ pc[p] = "idle"
    /\ IF LenRaises
       THEN Finish(p, "init", "AssertionError", FALSE) /\ UNCHANGED storeVars
       ELSE IF AlreadyInitialized
       THEN Finish(p, "init", "ok", FALSE) /\ UNCHANGED storeVars
       ELSE IF ~ContainsArray
       THEN /\ hasData' = TRUE
            /\ data' = CreatedData(N, chunk_size)
            /\ sim_status' = CreatedStatus(N, chunk_size)
            /\ attrs' = <<chunk_size>>
            /\ meta' = CreatedMeta(chunk_size, schema)
            /\ Finish(p, "init", "ok", FALSE)
       ELSE /\ Finish(p, "init", IF InitShapesConsistent(N, chunk_size, schema)
                                 THEN "ok" ELSE "AssertionError", FALSE)
            /\ UNCHANGED storeVars
    /\ UNCHANGED <<lock, reserved, writes, wasFilled, paired, shrunk>>
    /\ UNCHANGED <<simVars, pureVars>>

\* ---------------------------------------------------- ZarrStore.set_length
\* The call and its length check (lines 1096-1100).
set_length(p, N, clubber) ==
    /\ pc[p] = "idle"
    /\ IF LenRaises THEN Finish(p, "set_length", "AssertionError", FALSE)
       ELSE IF ShrinkRefused(N, clubber) THEN Finish(p, "set_length", "ValueError", FALSE)
       ELSE IF ~hasData THEN Finish(p, "set_length", "KeyError", FALSE)
       ELSE /\ pc' = [pc EXCEPT ![p] = "resize_data"]
            /\ call' = [call EXCEPT ![p] = [NoCall EXCEPT !.op = "set_length", !.N = N,
                                               !.clubber = clubber]]
            /\ loc' = [loc EXCEPT ![p] = [NoLoc EXCEPT !.ki = 1]]
            /\ UNCHANGED result
    /\ UNCHANGED <<storeVars, lock, reserved, writes, wasFilled, paired, shrunk>>
    /\ UNCHANGED <<simVars, pureVars>>

\* One pass of "for k in self.data.keys(): self.data[k].resize(N, ...)".
set_length_resize_data(p) ==
    /\ pc[p] = "resize_data"
    /\ LET k == Keys[loc[p].ki] N == call[p].N IN
         /\ data' = [data EXCEPT ![k] = ZarrResize(data[k], N, meta.chunks, Zero)]
         /\ writes' = [writes EXCEPT ![k] = [j \in Rows |-> IF j >= N THEN 0 ELSE writes[k][j]]]
         /\ paired' = [paired EXCEPT ![k] = [j \in Rows |-> IF j >= N THEN Zero ELSE paired[k][j]]]
    /\ IF loc[p].ki < Len(Keys)
       THEN loc' = [loc EXCEPT ![p].ki = loc[p].ki + 1] /\ UNCHANGED pc
       ELSE pc' = [pc EXCEPT ![p] = "resize_status"] /\ UNCHANGED loc
    /\ UNCHANGED <<hasData, sim_status, attrs, meta, lock, call, result, reserved, wasFilled, shrunk>>
    /\ UNCHANGED <<simVars, pureVars>>

\* self.root['meta/sim_status'].resize(N,)
set_length_resize_status(p) ==
    /\ pc[p] = "resize_status"
    /\ LET N == call[p].N IN
         /\ sim_status' = ZarrResize(sim_status, N, meta.chunks, EMPTY)
         /\ reserved' = [j \in Rows |-> IF j >= N THEN {} ELSE reserved[j]]
         /\ shrunk' = (shrunk \/ N < sim_status.len)
    /\ Finish(p, "set_length", "ok", FALSE)
    /\ UNCHANGED <<hasData, data, attrs, meta, lock, writes, wasFilled, paired>>
    /\ UNCHANGED <<simVars, pureVars>>

\* ------------------------------------------------------ ZarrStore.simulate
\* The call: total_sims = 0 (sims_required fails with KeyError without a 'meta' group).
simulate(p, capped, max_sims, batch_size) ==
    /\ pc[p] = "idle"
    /\ IF ~hasData THEN Finish(p, "simulate", "KeyError", capped)
       ELSE /\ pc' = [pc EXCEPT ![p] = "loop"]
            /\ call' = [call EXCEPT ![p] = [NoCall EXCEPT !.op = "simulate",
                            !.capped = capped, !.max_sims = max_sims, !.batch_size = batch_size]]
            /\ loc' = [loc EXCEPT ![p] = NoLoc]
            /\ UNCHANGED result
    /\ UNCHANGED <<storeVars, lock, reserved, writes, wasFilled, paired, shrunk>>
    /\ UNCHANGED <<simVars, pureVars>>

\* while self.sims_required > 0: if max_sims is not None and total_sims >= max_sims: break
simulate_loop(p) ==
    /\ pc[p] = "loop"
    /\ IF SimulateContinues(call[p].capped, call[p].max_sims, loc[p].total_sims)
       THEN pc' = [pc EXCEPT ![p] = "batch"] /\ UNCHANGED <<call, loc, result>>
       ELSE Finish(p, "simulate", "ok", call[p].capped)
    /\ UNCHANGED <<storeVars, lock, reserved, writes, wasFilled, paired, shrunk>>
    /\ UNCHANGED <<simVars, pureVars>>

\* _simulate_batch up to the lock: num_sims, the early return, samples = sample_fn(num_sims)
simulate_batch_begin(p) ==
    /\ pc[p] = "batch"
    /\ IF NumSims(call[p].batch_size) = 0
       THEN pc' = [pc EXCEPT ![p] = "loop"] /\ UNCHANGED loc
       ELSE /\ pc' = [pc EXCEPT ![p] = "lock"]
            /\ loc' = [loc EXCEPT ![p].num_sims = NumSims(call[p].batch_size)]
    /\ UNCHANGED <<storeVars, lock, call, result, reserved, writes, wasFilled, paired, shrunk>>
    /\ UNCHANGED <<simVars, pureVars>>

\* with self.lock: idx = ...; index_slices = get_index_slices(idx)
simulate_batch_lock(p) ==
    /\ pc[p] = "lock"
    /\ LockFree
    /\ lock' = p
    /\ LET idx == FirstEmpty(loc[p].num_sims) IN
         /\ loc' = [loc EXCEPT ![p].slices = get_index_slices(idx)]
         /\ reserved' = [j \in Rows |->
              IF \E t \in 1..Len(idx) : idx[t] = j THEN reserved[j] \cup {p} ELSE reserved[j]]
         /\ paired' = [k \in KeySet |-> [j \in Rows |->
              IF \E t \in 1..Len(idx) : idx[t] = j
              THEN SampleVal(p, k, (CHOOSE t \in 1..Len(idx) : idx[t] = j) - 1)
              ELSE paired[k][j]]]
    /\ pc' = [pc EXCEPT ![p] = "reserve"]
    /\ UNCHANGED <<storeVars, call, result, writes, wasFilled, shrunk>>
    /\ UNCHANGED <<simVars, pureVars>>

\* sim_status[j_slice[0]:j_slice[1]] = 1 for the next of index_slices
simulate_batch_status(p) ==
    /\ pc[p] = "reserve"
    /\ loc[p].slices # <<>>
    /\ LET j_slice == loc[p].slices[1][2] IN
         /\ sim_status' = SetSliceScalar(sim_status, j_slice[1], j_slice[2], FILLED)
         /\ wasFilled' = [j \in Rows |->
              \/ wasFilled[j]
              \/ /\ SliceLo(sim_status, j_slice[1]) <= j
                 /\ j < SliceHi(sim_status, j_slice[1], j_slice[2])]
    /\ pc' = [pc EXCEPT ![p] = "copy"]
    /\ loc' = [loc EXCEPT ![p].ki = 1]
    /\ UNCHANGED <<hasData, data, attrs, meta, lock, call, result, reserved, writes, paired, shrunk>>
    /\ UNCHANGED <<simVars, pureVars>>

\* data[k][j_slice[0]:j_slice[1]] = samples[k][i_slice[0]:i_slice[1]] for the next k;
\* a value of another shape than the selection raises, which leaves the with block.
simulate_batch_data(p) ==
    /\ pc[p] = "copy"
    /\ LET k == Keys[loc[p].ki]
           i_slice == loc[p].slices[1][1]
           j_slice == loc[p].slices[1][2]
           vals == SampleSlice(p, k, loc[p].num_sims, i_slice[1], i_slice[2])
       IN IF SliceFits(data[k], j_slice[1], j_slice[2], vals)
          THEN /\ data' = [data EXCEPT ![k] = SetSliceArray(data[k], j_slice[1], j_slice[2], vals)]
               /\ writes' = [writes EXCEPT ![k] = [j \in Rows |->
                    IF SliceLo(data[k], j_slice[1]) <= j
                       /\ j < SliceHi(data[k], j_slice[1], j_slice[2])
                    THEN Bump(writes[k][j]) ELSE writes[k][j]]]
               /\ IF loc[p].ki < Len(Keys)
                  THEN loc' = [loc EXCEPT ![p].ki = loc[p].ki + 1] /\ UNCHANGED pc
                  ELSE /\ loc' = [loc EXCEPT ![p].ki = 0, ![p].slices = Tail(loc[p].slices)]
                       /\ pc' = [pc EXCEPT ![p] = "reserve"]
               /\ UNCHANGED <<lock, call, result>>
          ELSE /\ lock' = 0
               /\ Finish(p, "simulate", "ValueError", call[p].capped)
               /\ UNCHANGED <<data, writes>>
    /\ UNCHANGED <<hasData, sim_status, attrs, meta, reserved, wasFilled, paired, shrunk>>
    /\ UNCHANGED <<simVars, pureVars>>

\* The end of the with block and of _simulate_batch: return num_sims; total_sims += num_sims
simulate_batch_unlock(p) ==
    /\ pc[p] = "reserve"
    /\ loc[p].slices = <<>>
    /\ lock' = 0
    /\ loc' = [loc EXCEPT ![p] = [NoLoc EXCEPT !.total_sims = loc[p].total_sims + loc[p].num_sims]]
    /\ pc' = [pc EXCEPT ![p] = "loop"]
    /\ UNCHANGED <<storeVars, call, result, reserved, writes, wasFilled, paired, shrunk>>
    /\ UNCHANGED <<simVars, pureVars>>

\* Participant p stops for good between the status flip of a run and the end
\* of the copy of its data (the process dies; its file lock is released with
\* it). What it held in its local variables is kept as a record of where it
\* stopped: ki = 1 says that no variable of the run was copied yet.
crash(p) ==
    /\ pc[p] = "copy"
    /\ pc' = [pc EXCEPT ![p] = "crashed"]
    /\ lock' = 0
    /\ UNCHANGED <<storeVars, call, loc, result, histVars>>
    /\ UNCHANGED <<simVars, pureVars>>

\* ------------------------------------------------ Trace, LazyValue, Simulator
\* The values a trace holds. A conditioned value names its key; the value a
\* node's function (or the instance it built) returned names the key it was
\* stored under and which invocation of the function produced it, so that a
\* recomputed value is told apart from the first one.
CondVal(k) == [kind |-> "condition", of |-> k, call |-> 0]
AssignedVal(k) == [kind |-> "assigned", of |-> k, call |-> 0]
SampleOf(k, c) == [kind |-> "sample", of |-> k, call |-> c]
LogProbOf(k, c) == [kind |-> "log_prob", of |-> k, call |-> c]

\* An argument of a node: another node's LazyValue, or a plain value.
Lazy(n, i) == [lazy |-> TRUE, node |-> n, k |-> i]
Eager == [lazy |-> FALSE, node |-> 0, k |-> 0]

\* The DAG that forward registers, in the order of its sample / sample_dist
\* calls: z = sample_dist("z", f1); m = sample("m", f2, 0.5);
\* x = sample_dist("x", f3, z, scale = m); u, v = sample(["u", "v"], f4, x);
\* a, b = sample_dist(["a", "b"], f5).
Nodes == <<
    [names |-> <<"z">>, list |-> FALSE, dist |-> TRUE, args |-> <<>>, kwargs |-> <<>>],
    [names |-> <<"m">>, list |-> FALSE, dist |-> FALSE, args |-> <<Eager>>, kwargs |-> <<>>],
    [names |-> <<"x">>, list |-> FALSE, dist |-> TRUE,
     args |-> <<Lazy(1, 1)>>, kwargs |-> <<Lazy(2, 1)>>],
    [names |-> <<"u", "v">>, list |-> TRUE, dist |-> FALSE,
     args |-> <<Lazy(3, 1)>>, kwargs |-> <<>>],
    [names |-> <<"a", "b">>, list |-> TRUE, dist |-> TRUE, args |-> <<>>, kwargs |-> <<>>] >>
NodeIds == 1..Len(Nodes)

\* The LazyValue objects: one per name of a node (this_name is names[k]).
LazyValues == {[node |-> n, k |-> i] : n \in NodeIds, i \in 1..2} \cap
              {lv \in [node : NodeIds, k : 1..2] : lv.k <= Len(Nodes[lv.node].names)}
ThisName(lv) == fn_out_names[lv.node][lv.k]

\* names = [self._prefix + n for n in names]; name = self._prefix + names
Prefixed(pre, names) == [i \in 1..Len(names) |-> pre \o names[i]]

\* What the c-th invocation of node n's function (or the sample() of the
\* instance it built) returns: one value per output of the node.
FnResult(n, c) == [i \in 1..Len(Nodes[n].names) |-> SampleOf(Nodes[n].names[i], c)]

\* targets = None, or a list of names.
NoTargets == [given |-> FALSE, names |-> <<>>]
TargetList(names) == [given |-> TRUE, names |-> names]
InList(k, names) == \E i \in 1..Len(names) : names[i] = k

\* The targets and the conditions _run is called with.
TargetChoices ==
    {NoTargets, TargetList(<<>>), TargetList(<<"x">>), TargetList(<<"z", "x">>),
     TargetList(<<"v">>), TargetList(<<"m", "w">>)}
ConditionChoices == {[k \in K |-> CondVal(k)] : K \in SUBSET {"z", "x", "u"}}

\* dict with no entries
EmptyDict == [k \in {} |-> CondVal(k)]

\* Faulty variant of SetItem: dict's own item assignment, which overwrites.
SetItemOverwrites(t, k, v) == [x \in DOMAIN t \cup {k} |-> IF x = k THEN v ELSE t[x]]

\* Trace.__setitem__: a key that is present keeps its value.
SetItem(t, k, v) ==
    IF k \in DOMAIN t THEN t
    ELSE [x \in DOMAIN t \cup {k} |-> IF x = k THEN v ELSE t[x]]

\* for out_name, value in zip(self._fn_out_names, result): self._trace[out_name] = value
RECURSIVE SetItems(_, _, _)
SetItems(t, names, values) ==
    IF names = <<>> \/ values = <<>> THEN t
    ELSE SetItems(SetItem(t, Head(names), Head(values)), Tail(names), Tail(values))

\* Faulty variants of covers_targets: nothing covers the targets, and a
\* target list is covered whatever the trace holds.
CoversNothing(t, tg) == FALSE
CoversAnything(t, tg) == tg.given

\* Trace.covers_targets
covers_targets(t, tg) == tg.given /\ \A i \in 1..Len(tg.names) : tg.names[i] \in DOMAIN t

\* What evaluate() reads and changes: the LazyValues' names, the trace and
\* the history of the run.
EvalState == [fn_out_names |-> fn_out_names, trace |-> trace, calls |-> calls,
              evals |-> evals, fresh |-> fresh, order |-> order, returned |-> returned]

\* LazyValue.evaluate() on lv in state st (lines 199-220), with the evaluation
\* of the arguments: the dict comprehension of the keyword arguments runs where
\* it stands, the generator of the positional arguments only when the call of
\* fn unpacks it.
RECURSIVE evaluate(_, _)
RECURSIVE evaluate_all(_, _)
evaluate_all(st, args) ==
    IF args = <<>> THEN st
    ELSE evaluate_all(IF Head(args).lazy
                      THEN evaluate(st, [node |-> Head(args).node, k |-> Head(args).k])
                      ELSE st,
                      Tail(args))

\* self._fn(*args, **kwargs) with its arguments evaluated: invocation of node n's function.
Invoke(st, n) ==
    LET s1 == evaluate_all(st, Nodes[n].kwargs)
        s2 == evaluate_all(s1, Nodes[n].args)
    IN [s2 EXCEPT !.calls[n] = @ + 1, !.order = Append(@, n)]

evaluate(st, lv) ==
    LET node == Nodes[lv.node]
        names == st.fn_out_names[lv.node]
        this_name == names[lv.k]
        absent == this_name \notin DOMAIN st.trace
        s0 == [st EXCEPT !.evals[lv] = @ + 1,
                         !.fresh = IF st.evals[lv] = 0 /\ absent THEN @ \cup {lv} ELSE @]
        s1 == IF absent
              THEN LET si == Invoke(s0, lv.node)
                   IN [si EXCEPT !.trace = SetItems(si.trace, names,
                                                    FnResult(lv.node, si.calls[lv.node]))]
              ELSE s0
        s2 == IF eval_log_probs /\ this_name # "" /\ node.dist
              THEN LET si == IF absent THEN s1 ELSE Invoke(s1, lv.node)
                   IN [si EXCEPT !.trace = SetItem(si.trace, this_name \o ":log_prob",
                                                   LogProbOf(Nodes[lv.node].names[lv.k],
                                                             si.calls[lv.node]))]
              ELSE s1
    IN [s2 EXCEPT !.returned[lv] = @ \cup {s2.trace[this_name]}]

\* Faulty variant of SampleEvaluates: every registration evaluates.
SampleAlwaysEvaluates(names) == TRUE

\* Trace._sample: the LazyValues are created, and the first of them is
\* evaluated when no targets are given or one of the names is a target.
SampleEvaluates(names) ==
    \/ ~targets.given
    \/ \E i \in 1..Len(names) : InList(names[i], targets.names)

NoRunResult == [outcome |-> "none", sample |-> EmptyDict]

\* The history of a run in which nothing was evaluated yet.
InitEvalHist ==
    /\ forward_calls = 0
    /\ calls = [n \in NodeIds |-> 0]
    /\ evals = [lv \in LazyValues |-> 0]
    /\ fresh = {}
    /\ order = <<>>
    /\ returned = [lv \in LazyValues |-> {}]

\* A Simulator on which _run has not been called.
InitSimulator ==
    /\ trace = EmptyDict
    /\ prefix = ""
    /\ scopes = <<>>
    /\ opened = 0
    /\ invalid_names = FALSE
    /\ fn_out_names = [n \in NodeIds |-> <<>>]
    /\ targets = NoTargets
    /\ eval_log_probs = FALSE
    /\ conditions = EmptyDict
    /\ rpc = "idle"
    /\ registered = 0
    /\ value_calls = 0
    /\ run_result = NoRunResult
    /\ InitEvalHist

\* The state evaluate() leaves becomes the state of the run.
Evaluated(st) ==
    /\ trace' = st.trace
    /\ calls' = st.calls
    /\ evals' = st.evals
    /\ fresh' = st.fresh
    /\ order' = st.order
    /\ returned' = st.returned

\* The arguments of the run and the history of its evaluations.
runArgs == <<targets, eval_log_probs, conditions>>
evalHist == <<trace, calls, evals, fresh, order, returned>>

\* _run(targets, conditions, log_prob) up to the call of forward (lines 252-256)
run(tg, cond, log_prob) ==
    /\ rpc = "idle"
    /\ trace' = cond
    /\ prefix' = ""
    /\ scopes' = <<>>
    /\ opened' = 0
    /\ invalid_names' = FALSE
    /\ fn_out_names' = [n \in NodeIds |-> <<>>]
    /\ targets' = tg
    /\ eval_log_probs' = log_prob
    /\ conditions' = cond
    /\ registered' = 0
    /\ value_calls' = 0
    /\ calls' = [n \in NodeIds |-> 0]
    /\ evals' = [lv \in LazyValues |-> 0]
    /\ fresh' = {}
    /\ order' = <<>>
    /\ returned' = [lv \in LazyValues |-> {}]
    /\ run_result' = NoRunResult
    /\ IF ~covers_targets(cond, tg)
       THEN rpc' = "forward" /\ forward_calls' = 1
       ELSE rpc' = "after" /\ forward_calls' = 0
    /\ UNCHANGED <<zarrVars, pureVars>>

\* forward registers its next node: trace.sample(...) or trace.sample_dist(...)
forward_sample(n) ==
    /\ rpc = "forward"
    /\ n = registered + 1
    /\ registered' = n
    /\ LET names == Prefixed(prefix, Nodes[n].names)
           st == [EvalState EXCEPT !.fn_out_names[n] = names]
       IN /\ fn_out_names' = st.fn_out_names
          /\ IF SampleEvaluates(names)
             THEN Evaluated(evaluate(st, [node |-> n, k |-> 1]))
             ELSE UNCHANGED evalHist
    /\ UNCHANGED <<prefix, scopes, opened, invalid_names, runArgs, rpc, value_calls, forward_calls,
                   run_result>>
    /\ UNCHANGED <<zarrVars, pureVars>>

\* forward reads .value of a LazyValue it got from an earlier registration
forward_value(lv) ==
    /\ rpc = "forward"
    /\ lv.node <= registered
    /\ value_calls < MaxValueCalls
    /\ value_calls' = value_calls + 1
    /\ Evaluated(evaluate(EvalState, lv))
    /\ UNCHANGED <<prefix, scopes, opened, invalid_names, fn_out_names, runArgs, rpc, registered, forward_calls,
                   run_result>>
    /\ UNCHANGED <<zarrVars, pureVars>>

\* The keys forward assigns to directly.
SetItemKeys == {"x"}

\* forward assigns to an item of the trace: trace[k] = v
forward_setitem(k) ==
    /\ rpc = "forward"
    /\ trace' = SetItem(trace, k, AssignedVal(k))
    /\ UNCHANGED <<prefix, scopes, opened, invalid_names, fn_out_names, runArgs, rpc,
                   registered, value_calls, forward_calls, calls, evals, fresh, order,
                   returned, run_result>>
    /\ UNCHANGED <<zarrVars, pureVars>>

\* forward returns, after all of its registrations or before
forward_return ==
    /\ rpc = "forward"
    /\ scopes = <<>>
    /\ rpc' = "after"
    /\ UNCHANGED <<prefix, scopes, opened, invalid_names, fn_out_names, runArgs, registered, value_calls,
                   forward_calls, evalHist, run_result>>
    /\ UNCHANGED <<zarrVars, pureVars>>

\* The rest of _run (lines 261-265): the check of the targets, dict(trace)
run_return ==
    /\ rpc = "after"
    /\ rpc' = "idle"
    /\ run_result' = IF targets.given /\ ~covers_targets(trace, targets)
                     THEN [outcome |-> "ValueError", sample |-> EmptyDict]
                     ELSE [outcome |-> "ok", sample |-> trace]
    /\ UNCHANGED <<prefix, scopes, opened, invalid_names, fn_out_names, runArgs, registered, value_calls,
                   forward_calls, evalHist>>
    /\ UNCHANGED <<zarrVars, pureVars>>

\* A full sample: a value for every name of every node.
FullSample ==
    [k \in {Nodes[lv.node].names[lv.k] : lv \in LazyValues} |-> CondVal(k)]

\* conditions = sample.copy(); for k in self._targets: conditions.pop(k)
Pop(sample, names) == [k \in DOMAIN sample \ {names[i] : i \in 1..Len(names)} |-> sample[k]]

\* SimulatorResampler.__call__(sample) of a resampler made with targets T:
\* the simulator is called with the popped copy as conditions and T as targets,
\* which is _run(T, conditions, log_prob = False); sample itself is left alone.
resample(T) ==
    /\ pure_fn = "resampler"
    /\ run(TargetList(T), Pop(pure_in, T), FALSE)

\* Faulty variant of ExitPrefix: the prefix is cleared instead of restored.
ExitClearsPrefix(saved) == ""

\* TracePrefixContextManager.__enter__: the trace's new prefix, for a manager
\* made with prefix p while the trace's prefix is pre.
EnterPrefix(p, pre) == p \o pre

\* TracePrefixContextManager.__exit__: the trace's prefix becomes the manager's _prefix.
ExitPrefix(saved) == saved

\* with trace.prefix(p): forward enters a scope (__init__ and __enter__)
prefix_enter(p) ==
    /\ rpc = "forward"
    /\ opened < MaxScopes
    /\ opened' = opened + 1
    /\ scopes' = Append(scopes, [_prefix |-> prefix, arg |-> p, before |-> prefix])
    /\ prefix' = EnterPrefix(p, prefix)
    /\ UNCHANGED <<invalid_names, fn_out_names, runArgs, rpc, registered, value_calls,
                   forward_calls, evalHist, run_result>>
    /\ UNCHANGED <<zarrVars, pureVars>>

\* The innermost scope is left (__exit__), at the end of its block or by an
\* exception that propagates through it.
prefix_exit ==
    /\ rpc \in {"forward", "raising"}
    /\ scopes # <<>>
    /\ prefix' = ExitPrefix(scopes[Len(scopes)]._prefix)
    /\ scopes' = SubSeq(scopes, 1, Len(scopes) - 1)
    /\ UNCHANGED <<opened, invalid_names, fn_out_names, runArgs, rpc, registered,
                   value_calls, forward_calls, evalHist, run_result>>
    /\ UNCHANGED <<zarrVars, pureVars>>

\* The kinds of names argument that are neither a str nor a list.
OtherKinds == {"tuple", "None"}

\* Faulty variant of NamesRejected: _sample returns without raising.
NamesNeverRejected(kind) == FALSE

\* Trace._sample: names that are neither a list nor a str are refused.
NamesRejected(kind) == kind \notin {"list", "str"}

\* forward calls trace.sample / sample_dist with names of another kind than
\* str and list: _sample raises ValueError (lines 143-144)
forward_sample_invalid(kind) ==
    /\ rpc = "forward"
    /\ invalid_names' = TRUE
    /\ rpc' = IF NamesRejected(kind) THEN "raising" ELSE "forward"
    /\ UNCHANGED <<prefix, scopes, opened, fn_out_names, runArgs, registered,
                   value_calls, forward_calls, evalHist, run_result>>
    /\ UNCHANGED <<zarrVars, pureVars>>

\* The exception has left every scope and forward, and leaves _run.
run_raise ==
    /\ rpc = "raising"
    /\ scopes = <<>>
    /\ rpc' = "idle"
    /\ run_result' = [outcome |-> "ValueError", sample |-> EmptyDict]
    /\ UNCHANGED <<prefix, scopes, opened, invalid_names, fn_out_names, runArgs,
                   registered, value_calls, forward_calls, evalHist>>
    /\ UNCHANGED <<zarrVars, pureVars>>

\* ------------------------------------------------- functions called on their own
\* No function has been called.
InitPure ==
    /\ pure_fn = "none"
    /\ pure_in = <<>>
    /\ pure_out = <<>>

\* The elements of a set of numbers as a strictly increasing list.
RECURSIVE Increasing(_)
Increasing(S) ==
    IF S = {} THEN <<>>
    ELSE LET least == CHOOSE x \in S : \A y \in S : x <= y
         IN <<least>> \o Increasing(S \ {least})

\* get_index_slices(idx) is called, once, with a strictly increasing list
call_get_index_slices(idx) ==
    /\ pure_fn = "none"
    /\ pure_fn' = "get_index_slices"
    /\ pure_in' = idx
    /\ pure_out' = get_index_slices(idx)
    /\ UNCHANGED <<zarrVars, simVars>>

\* Faulty variant of all_equal: the sizes are never compared.
AllEqualUnchecked(n) == TRUE

\* all([x == n[0] for x in n])
all_equal(n) == \A i \in 1..Len(n) : n[i] = n[1]

\* Samples.__len__ on a store given by the leading-dimension sizes of its
\* variables, in the order of self.values().
Samples_len(n) ==
    IF ~all_equal(n) THEN [outcome |-> "AssertionError", value |-> 0]
    ELSE IF n = <<>> THEN [outcome |-> "IndexError", value |-> 0]
    ELSE [outcome |-> "ok", value |-> n[1]]

\* Every Samples store of exactly k variables.
SamplesOf(k) == [1..k -> 0..MaxLen]

\* len(samples) is called, once
call_len(n) ==
    /\ pure_fn = "none"
    /\ pure_fn' = "len"
    /\ pure_in' = n
    /\ pure_out' = Samples_len(n)
    /\ UNCHANGED <<zarrVars, simVars>>

\* Faulty variant of FloorDiv: the remainder instead of the quotient.
Remainder(i, r) == i % r

\* i // self._repeat, for an index i >= 0 and a repeat r >= 1
FloorDiv(i, r) == i \div r

\* RepeatDatasetWrapper.__len__ over a dataset of m rows
Repeat_len(m, r) == m * r

\* RepeatDatasetWrapper.__getitem__(i) over a dataset of m rows whose
\* row j is j: the row fetched, or IndexError when the dataset has no such row.
Repeat_getitem(m, r, i) ==
    IF FloorDiv(i, r) \in 0..(m - 1) THEN FloorDiv(i, r) ELSE "IndexError"

\* A wrapper is made over a dataset of m rows with repeat r; its length is
\* taken and every index below that length is fetched, in order.
call_repeat(m, r) ==
    /\ pure_fn = "none"
    /\ pure_fn' = "repeat"
    /\ pure_in' = [M |-> m, R |-> r]
    /\ pure_out' = [len |-> Repeat_len(m, r),
                    rows |-> [k \in 1..Repeat_len(m, r) |-> Repeat_getitem(m, r, k - 1)]]
    /\ UNCHANGED <<zarrVars, simVars>>

\* Faulty variant of CeilDiv: the quotient is rounded down.
RoundedDown(a, b) == a \div b

\* int(math.ceil(a/float(b))) for a >= 0 and b >= 1
CeilDiv(a, b) == IF a % b = 0 THEN a \div b ELSE a \div b + 1

\* ZarrStoreIterableDataset.__init__: offset, n_samples and n_chunks for a
\* store of store_len rows; idx_range is <<>> for None, else <<from, to>>.
DatasetOf(store_len, chunk_size, idx_range) ==
    LET offset == IF idx_range = <<>> THEN 0 ELSE idx_range[1]
        n_samples == IF idx_range = <<>> THEN store_len ELSE idx_range[2] - idx_range[1]
    IN [store_len |-> store_len, chunk_size |-> chunk_size, offset |-> offset,
        n_samples |-> n_samples, n_chunks |-> CeilDiv(n_samples, chunk_size)]

\* The chunk indices in get_idx's result (a random permutation of them):
\* range(n_chunks) without worker_info (num_workers = 0 stands for None),
\* else range(worker_id*n_chunks_per_worker, min((worker_id+1)*n_chunks_per_worker, n_chunks)).
get_idx(n_chunks, num_workers, worker_id) ==
    IF num_workers = 0 THEN {i \in 0..(n_chunks - 1) : TRUE}
    ELSE LET n_chunks_per_worker == CeilDiv(n_chunks, num_workers)
             idx == <<worker_id * n_chunks_per_worker,
                      Min((worker_id + 1) * n_chunks_per_worker, n_chunks)>>
         IN {i \in idx[1]..(idx[2] - 1) : TRUE}

\* The rows of self.zs.data[k][offset+i0*chunk_size : offset+(i0+1)*chunk_size],
\* which __iter__ yields one by one in a random order.
ChunkRows(ds, i0) ==
    {r \in 0..(ds.store_len - 1) :
        /\ ds.offset + i0 * ds.chunk_size <= r
        /\ r < ds.offset + (i0 + 1) * ds.chunk_size}

\* The workers of a loader: one pass without worker_info, else ids 0..num_workers-1.
WorkerIds(num_workers) == IF num_workers = 0 THEN {0} ELSE 0..(num_workers - 1)

\* Every worker of a loader iterates once over a dataset of the store: what
\* is recorded is each worker's chunk indices and, per row of the store, how
\* many times it was yielded by all workers together.
call_iter(store_len, chunk_size, idx_range, num_workers) ==
    /\ pure_fn = "none"
    /\ pure_fn' = "iter"
    /\ LET ds == DatasetOf(store_len, chunk_size, idx_range) IN
         /\ pure_in' = [ds |-> ds, num_workers |-> num_workers]
         /\ pure_out' =
              [chunks |-> [w \in WorkerIds(num_workers) |-> get_idx(ds.n_chunks, num_workers, w)],
               yields |-> [r \in 0..(store_len - 1) |->
                   Cardinality({c \in {<<w, i0>> : w \in WorkerIds(num_workers),
                                                    i0 \in 0..(ds.n_chunks - 1)} :
                                   /\ c[2] \in get_idx(ds.n_chunks, num_workers, c[1])
                                   /\ r \in ChunkRows(ds, c[2])})]]
    /\ UNCHANGED <<zarrVars, simVars>>

\* ----------------------------------------------------------- specifications
\* The (max_sims given?, max_sims) arguments simulate is called with.
Caps == {<<FALSE, 0>>} \cup {<<TRUE, m>> : m \in 0..MaxBatch}

\* The participants of the specifications below.
Solo == {1}
Duo == {1, 2}

\* One participant, every operation of the store, from an empty directory.
Init == InitEmptyStore /\ InitProcs(Solo) /\ InitHist /\ InitSimulator /\ InitPure

Next ==
    \/ \E p \in Solo, N \in 0..MaxN, chunk_size \in 1..MaxChunk, schema \in SchemaSet :
          init(p, N, chunk_size, schema)
    \/ \E p \in Solo, N \in 0..MaxN, clubber \in BOOLEAN : set_length(p, N, clubber)
    \/ \E p \in Solo : set_length_resize_data(p)
    \/ \E p \in Solo : set_length_resize_status(p)
    \/ \E p \in Solo, cap \in Caps, batch_size \in 1..MaxBatch :
          simulate(p, cap[1], cap[2], batch_size)
    \/ \E p \in Solo : simulate_loop(p)
    \/ \E p \in Solo : simulate_batch_begin(p)
    \/ \E p \in Solo : simulate_batch_lock(p)
    \/ \E p \in Solo : simulate_batch_status(p)
    \/ \E p \in Solo : simulate_batch_data(p)
    \/ \E p \in Solo : simulate_batch_unlock(p)

Spec == Init /\ [][Next]_vars

\* The store as init(N, chunk_size, shapes, dtypes) leaves an empty directory.
InitFreshStore ==
    \E N \in 1..MaxN, chunk_size \in 1..MaxChunk :
        /\ hasData = TRUE
        /\ data = CreatedData(N, chunk_size)
        /\ sim_status = CreatedStatus(N, chunk_size)
        /\ attrs = <<chunk_size>>
        /\ meta = CreatedMeta(chunk_size, Schemas[1])

\* One participant populating a freshly initialised store.
InitSolo == InitFreshStore /\ InitProcs(Solo) /\ InitHist /\ InitSimulator /\ InitPure

NextSolo ==
    \/ \E p \in Solo, cap \in Caps, batch_size \in 1..MaxBatch :
          simulate(p, cap[1], cap[2], batch_size)
    \/ \E p \in Solo : simulate_loop(p)
    \/ \E p \in Solo : simulate_batch_begin(p)
    \/ \E p \in Solo : simulate_batch_lock(p)
    \/ \E p \in Solo : simulate_batch_status(p)
    \/ \E p \in Solo : simulate_batch_data(p)
    \/ \E p \in Solo : simulate_batch_unlock(p)

SpecSolo == InitSolo /\ [][NextSolo]_vars

\* The store as init(N, MaxChunk, shapes, dtypes) leaves an empty directory.
InitSharedStore ==
    \E N \in 1..MaxN :
        /\ hasData = TRUE
        /\ data = CreatedData(N, MaxChunk)
        /\ sim_status = CreatedStatus(N, MaxChunk)
        /\ attrs = <<MaxChunk>>
        /\ meta = CreatedMeta(MaxChunk, Schemas[1])

\* Two participants calling simulate, with and without max_sims, on the same
\* freshly initialised store, interleaved in every way.
InitDuo == InitSharedStore /\ InitProcs(Duo) /\ InitHist /\ InitSimulator /\ InitPure

NextDuo ==
    \/ \E p \in Duo, cap \in Caps, batch_size \in 1..MaxBatch :
          simulate(p, cap[1], cap[2], batch_size)
    \/ \E p \in Duo : simulate_loop(p)
    \/ \E p \in Duo : simulate_batch_begin(p)
    \/ \E p \in Duo : simulate_batch_lock(p)
    \/ \E p \in Duo : simulate_batch_status(p)
    \/ \E p \in Duo : simulate_batch_data(p)
    \/ \E p \in Duo : simulate_batch_unlock(p)

SpecDuo == InitDuo /\ [][NextDuo]_vars

\* Two participants calling simulate without max_sims on the same freshly
\* initialised store. A participant that has called simulate keeps taking its
\* steps (weak fairness): nobody crashes, and the lock is granted when it is
\* free.
InitPopulate == InitSharedStore /\ InitProcs(Duo) /\ InitHist /\ InitSimulator /\ InitPure

PopulateStep(p) ==
    \/ simulate_loop(p)
    \/ simulate_batch_begin(p)
    \/ simulate_batch_lock(p)
    \/ simulate_batch_status(p)
    \/ simulate_batch_data(p)
    \/ simulate_batch_unlock(p)

NextPopulate ==
    \/ \E p \in Duo, batch_size \in 1..MaxBatch : simulate(p, FALSE, 0, batch_size)
    \/ \E p \in Duo : simulate_loop(p)
    \/ \E p \in Duo : simulate_batch_begin(p)
    \/ \E p \in Duo : simulate_batch_lock(p)
    \/ \E p \in Duo : simulate_batch_status(p)
    \/ \E p \in Duo : simulate_batch_data(p)
    \/ \E p \in Duo : simulate_batch_unlock(p)

SpecPopulate ==
    InitPopulate /\ [][NextPopulate]_vars /\ \A p \in Duo : WF_vars(PopulateStep(p))

\* One Simulator whose forward registers the nodes of Nodes, reads .value of
\* LazyValues in between and may return early; _run is called again and again
\* with every choice of targets, conditions and log_prob. No store is open.
InitTrace == InitEmptyStore /\ InitProcs(Solo) /\ InitHist /\ InitSimulator /\ InitPure

NextTrace ==
    \/ \E tg \in TargetChoices, cond \in ConditionChoices, log_prob \in BOOLEAN :
          run(tg, cond, log_prob)
    \/ \E n \in NodeIds : forward_sample(n)
    \/ \E lv \in LazyValues : forward_value(lv)
    \/ \E k \in SetItemKeys : forward_setitem(k)
    \/ forward_return
    \/ run_return

SpecTrace == InitTrace /\ [][NextTrace]_vars

\* The prefixes forward opens scopes with, and the targets and conditions of
\* the runs whose forward uses prefix scopes.
PrefixChoices == {"a", "b"}
ScopeTargets == {NoTargets, TargetList(<<"abx">>)}
ScopeConditions == {EmptyDict, [k \in {"bz"} |-> CondVal(k)]}

\* One Simulator whose forward registers the nodes of Nodes inside nested
\* prefix scopes, opened and left in any properly nested way; a registration
\* may be given invalid names, and the exception leaves the scopes and _run.
NextScope ==
    \/ \E tg \in ScopeTargets, cond \in ScopeConditions, log_prob \in BOOLEAN :
          run(tg, cond, log_prob)
    \/ \E p \in PrefixChoices : prefix_enter(p)
    \/ prefix_exit
    \/ \E n \in NodeIds : forward_sample(n)
    \/ \E kind \in OtherKinds : forward_sample_invalid(kind)
    \/ forward_return
    \/ run_return
    \/ run_raise

SpecScope == InitTrace /\ [][NextScope]_vars

\* get_index_slices called with every strictly increasing list of row
\* indices up to MaxIdx. No store is open and no Simulator runs.
InitSlices == InitTrace

NextSlices ==
    \/ \E S \in SUBSET (0..MaxIdx) : call_get_index_slices(Increasing(S))

SpecSlices == InitSlices /\ [][NextSlices]_vars

\* len() of every Samples store of up to MaxVars variables with
\* leading-dimension sizes up to MaxLen.
InitLen == InitTrace

NextLen ==
    \/ \E k \in 0..MaxVars : \E n \in SamplesOf(k) : call_len(n)

SpecLen == InitLen /\ [][NextLen]_vars

\* A resampler over the Simulator of SpecTrace, called again and again with
\* the full sample and each of these target lists.
ResampleTargets == {<<"x">>, <<"z">>, <<"v">>, <<"u", "v">>, <<"m", "x">>}

InitResample ==
    /\ InitEmptyStore /\ InitProcs(Solo) /\ InitHist /\ InitSimulator
    /\ pure_fn = "resampler"
    /\ pure_in = FullSample
    /\ pure_out = <<>>

NextResample ==
    \/ \E T \in ResampleTargets : resample(T)
    \/ \E n \in NodeIds : forward_sample(n)
    \/ \E lv \in LazyValues : forward_value(lv)
    \/ forward_return
    \/ run_return

SpecResample == InitResample /\ [][NextResample]_vars

\* A RepeatDatasetWrapper over every dataset of up to MaxRows rows with every
\* repeat from 1 to MaxRepeat.
InitRepeat == InitTrace

NextRepeat ==
    \/ \E m \in 0..MaxRows, r \in 1..MaxRepeat : call_repeat(m, r)

SpecRepeat == InitRepeat /\ [][NextRepeat]_vars

\* Two participants calling simulate without max_sims on the same freshly
\* initialised store, each of which may stop for good in the middle of a batch.
InitCrash == InitSharedStore /\ InitProcs(Duo) /\ InitHist /\ InitSimulator /\ InitPure

NextCrash ==
    \/ \E p \in Duo, batch_size \in 1..MaxBatch : simulate(p, FALSE, 0, batch_size)
    \/ \E p \in Duo : simulate_loop(p)
    \/ \E p \in Duo : simulate_batch_begin(p)
    \/ \E p \in Duo : simulate_batch_lock(p)
    \/ \E p \in Duo : simulate_batch_status(p)
    \/ \E p \in Duo : simulate_batch_data(p)
    \/ \E p \in Duo : simulate_batch_unlock(p)
    \/ \E p \in Duo : crash(p)

SpecCrash == InitCrash /\ [][NextCrash]_vars

\* One pass of a loader with 0 (no worker_info) to MaxWorkers workers over a
\* dataset of every store of up to MaxStore rows, every chunk size and every
\* idx_range (None or a range inside the store).
IdxRanges(store_len) ==
    {<<>>} \cup {r \in (0..store_len) \X (0..store_len) : r[1] <= r[2]}

InitIter == InitTrace

NextIter ==
    \/ \E store_len \in 0..MaxStore, chunk_size \in 1..MaxChunk, num_workers \in 0..MaxWorkers :
          \E idx_range \in IdxRanges(store_len) :
              call_iter(store_len, chunk_size, idx_range, num_workers)

SpecIter == InitIter /\ [][NextIter]_vars

\* ------------------------------------------------------------------ claims
\* The rows of the store now.
Present == {j \in Rows : j < sim_status.len}

\* Participant p's last call was simulate without max_sims and it has returned.
ReturnedUncapped(p) ==
    /\ pc[p] = "idle"
    /\ result[p] = [op |-> "simulate", outcome |-> "ok", capped |-> FALSE]

\* C1: when two participants run simulate concurrently on one store, no row
\* is selected (reserved) by more than one of them, and the data of no row
\* is written more than once.
C1_ReservationsDisjoint ==
    \A j \in Rows :
        /\ Cardinality(reserved[j]) <= 1
        /\ \A k \in KeySet : writes[k][j] <= 1

\* Both participants have reserved and written rows of the same store.
C1_Witness ==
    \E j1 \in Rows, j2 \in Rows :
        /\ reserved[j1] = {1} /\ reserved[j2] = {2}
        /\ \A k \in KeySet : writes[k][j1] = 1 /\ writes[k][j2] = 1

\* C2: after one participant's simulate without max_sims returns on a store
\* initialised with N rows, sims_required is 0, every row is FILLED, every row
\* was written exactly once, and row j of every variable holds the sample
\* value of the batch position that was paired with j.
C2_RoundTrip ==
    \A p \in Solo :
        ReturnedUncapped(p) =>
            /\ sims_required = 0
            /\ \A j \in Present :
                  /\ sim_status.cells[j + 1] = FILLED
                  /\ \A k \in KeySet :
                        /\ writes[k][j] = 1
                        /\ paired[k][j] # Zero
                        /\ Read(data[k])[j + 1] = paired[k][j]

\* A simulate without max_sims has returned after filling a store of at least
\* two rows, the second half of a batch of two included.
C2_Witness ==
    \E p \in Solo :
        /\ ReturnedUncapped(p)
        /\ sim_status.len >= 2
        /\ \E j \in Present, k \in KeySet : Read(data[k])[j + 1] = SampleVal(p, k, 1)

\* C3: with fair scheduling and no crash, every simulate call of every
\* participant returns, and once all participants have returned and one of
\* them ran without max_sims, no row is EMPTY and every row has been written
\* by exactly one participant.
C3_PopulateTerminates ==
    /\ \A p \in Duo : (pc[p] # "idle") ~> (pc[p] = "idle")
    /\ []((/\ \A p \in Duo : pc[p] = "idle"
           /\ \E p \in Duo : ReturnedUncapped(p))
          => /\ sims_required = 0
             /\ \A j \in Present :
                   /\ Cardinality(reserved[j]) = 1
                   /\ \A k \in KeySet : writes[k][j] = 1)

\* Both participants ran simulate without max_sims to the end and each wrote rows.
C3_Witness ==
    /\ \A p \in Duo : ReturnedUncapped(p)
    /\ \E j1 \in Present, j2 \in Present : reserved[j1] = {1} /\ reserved[j2] = {2}

\* C4: a LazyValue whose name was absent from the trace at its first
\* evaluate() and that has been evaluated twice or more has had the function
\* of its node invoked exactly once, and every evaluate() returned the same
\* value, whatever the kind of the node and with or without log_prob.
C4_InvokedOnce ==
    \A lv \in LazyValues :
        (lv \in fresh /\ evals[lv] >= 2) =>
            /\ calls[lv.node] = 1
            /\ Cardinality(returned[lv]) = 1

\* C5 (as stated): over any sequence of init, set_length (with or without
\* clubber) and simulate, a row index that has been FILLED is FILLED whenever
\* it is a row of the store: it never shows EMPTY again, so it cannot change
\* from EMPTY to FILLED a second time.
C5_AsStated ==
    \A j \in Present : wasFilled[j] => sim_status.cells[j + 1] = FILLED

\* C5 (amended): no step changes a row that stays in the store from FILLED to
\* EMPTY, and as long as no set_length has made the store shorter, a row index
\* that has been FILLED stays FILLED (so it is filled at most once).
C5_StatusOneWay ==
    /\ [][\A j \in Rows :
            (/\ j < sim_status.len /\ j < sim_status'.len
             /\ sim_status.cells[j + 1] = FILLED) => sim_status'.cells[j + 1] = FILLED]_vars
    /\ [](~shrunk => \A j \in Present : wasFilled[j] => sim_status.cells[j + 1] = FILLED)

\* A store that was never made shorter has been grown by set_length after a
\* row was filled, and has a FILLED row and an EMPTY row.
C5_Witness ==
    /\ ~shrunk
    /\ \E p \in Solo : result[p] = [op |-> "set_length", outcome |-> "ok", capped |-> FALSE]
    /\ \E j \in Present : wasFilled[j] /\ sim_status.cells[j + 1] = FILLED
    /\ \E j \in Present : sim_status.cells[j + 1] = EMPTY

\* The arguments of init differ from what the store recorded at creation.
SchemaDiffers(chunk_size, schema) == chunk_size # meta.chunks \/ schema # meta.schema

\* C6: init on a store of length > 0 with a chunk_size, shape or dtype that
\* differs from the recorded one does not return successfully.
C6_MismatchRejected ==
    [][\A p \in Solo, N \in 0..MaxN, chunk_size \in 1..MaxChunk, schema \in SchemaSet :
          (/\ init(p, N, chunk_size, schema)
           /\ StoreLen > 0
           /\ SchemaDiffers(chunk_size, schema)) => result'[p].outcome # "ok"]_vars

\* C7: init on a store that has its arrays already, whatever simulate and
\* set_length did to it before, leaves the length, every variable array, the
\* status array and the recorded metadata unchanged.
C7_ReinitChangesNothing ==
    [][\A p \in Solo, N \in 0..MaxN, chunk_size \in 1..MaxChunk, schema \in SchemaSet :
          (init(p, N, chunk_size, schema) /\ hasData) => UNCHANGED storeVars]_vars

\* init has just returned on a store that holds a FILLED row with its data.
C7_Witness ==
    /\ \E p \in Solo : result[p] = [op |-> "init", outcome |-> "ok", capped |-> FALSE]
    /\ \E j \in Present :
          /\ sim_status.cells[j + 1] = FILLED
          /\ \A k \in KeySet : Read(data[k])[j + 1] # Zero

\* C8: when set_length(N') with N' >= the current length completes, the rows
\* that existed keep their status and data, every array has length N', and
\* every new row has status EMPTY.
C8_GrowthFrame ==
    [][\A p \in Solo :
          (set_length_resize_status(p) /\ call[p].N >= sim_status.len) =>
              /\ sim_status'.len = call[p].N
              /\ \A k \in KeySet : data'[k].len = call[p].N
              /\ \A j \in 0..(sim_status.len - 1) :
                    /\ sim_status'.cells[j + 1] = sim_status.cells[j + 1]
                    /\ \A k \in KeySet : data'[k].cells[j + 1] = data[k].cells[j + 1]
              /\ \A j \in sim_status.len..(call[p].N - 1) :
                    sim_status'.cells[j + 1] = EMPTY]_vars

\* C9: set_length(N') with N' below the current length and without clubber
\* ends with ValueError and leaves the length, every variable array and the
\* status array unchanged.
C9_ShrinkRejected ==
    [][\A p \in Solo, N \in 0..MaxN :
          (set_length(p, N, FALSE) /\ N < StoreLen) =>
              /\ pc'[p] = "idle"
              /\ result'[p] = [op |-> "set_length", outcome |-> "ValueError", capped |-> FALSE]
              /\ UNCHANGED storeVars]_vars

\* A set_length without clubber has just been refused on a store with a FILLED row.
C9_Witness ==
    /\ \E p \in Solo :
          /\ pc[p] = "idle"
          /\ result[p] = [op |-> "set_length", outcome |-> "ValueError", capped |-> FALSE]
    /\ \E j \in Present : sim_status.cells[j + 1] = FILLED

\* Every name of the target list is a key of the conditions of the run.
ConditionsCoverTargets ==
    targets.given /\ \A i \in 1..Len(targets.names) : targets.names[i] \in DOMAIN conditions

\* C10: in a run whose targets are given and are all keys of the conditions
\* (the empty list included), forward is never invoked, no node is registered
\* and no function is invoked, and _run returns exactly the conditions.
C10_ShortCircuit ==
    ConditionsCoverTargets =>
        /\ forward_calls = 0
        /\ registered = 0
        /\ order = <<>>
        /\ rpc = "idle" => run_result = [outcome |-> "ok", sample |-> conditions]

\* _run has returned from a run with a non-empty target list that the
\* conditions covered.
C10_Witness ==
    /\ ConditionsCoverTargets
    /\ targets.names # <<>>
    /\ rpc = "idle"
    /\ run_result.outcome = "ok"

\* Some name of the target list is not a key of the trace.
TargetMissing ==
    targets.given /\ \E i \in 1..Len(targets.names) : targets.names[i] \notin DOMAIN trace

\* C11: when _run comes to its end after forward, it fails with ValueError
\* ("Missing simulation targets.") and returns no mapping if targets were
\* given and one of them is not a key of the trace; otherwise it returns the
\* trace's mapping without error.
C11_MissingTargets ==
    [][run_return =>
          IF TargetMissing
          THEN run_result' = [outcome |-> "ValueError", sample |-> EmptyDict]
          ELSE run_result' = [outcome |-> "ok", sample |-> trace]]_vars

\* forward has registered all of its nodes and returned, a target was never
\* produced, and _run has failed.
C11_Witness ==
    /\ rpc = "idle"
    /\ forward_calls = 1
    /\ registered = Len(Nodes)
    /\ TargetMissing
    /\ run_result.outcome = "ValueError"

\* The LazyValues that the registration of node n returned.
LazyValuesOf(n) == {lv \in LazyValues : lv.node = n}

\* C12: for a node registered with a list of names none of which the trace
\* held, once one or several of the returned LazyValues have been evaluated
\* (each at most once), the function was invoked exactly once and its i-th
\* result is stored under the i-th name, for every i.
C12_FanOut ==
    \A n \in NodeIds :
        (/\ Nodes[n].list
         /\ n <= registered
         /\ \A i \in 1..Len(Nodes[n].names) : Nodes[n].names[i] \notin DOMAIN conditions
         /\ \E lv \in LazyValuesOf(n) : evals[lv] >= 1
         /\ \A lv \in LazyValuesOf(n) : evals[lv] <= 1)
        => /\ calls[n] = 1
           /\ \A i \in 1..Len(Nodes[n].names) :
                 /\ fn_out_names[n][i] \in DOMAIN trace
                 /\ trace[fn_out_names[n][i]] = FnResult(n, 1)[i]

\* C13: when a node with a list of names is registered and no targets are
\* given or one of its names is a target, every one of its names is a key of
\* the trace on return from the registration, whichever of its names the
\* conditions supplied.
C13_AllNamesPresent ==
    [][\A n \in NodeIds :
          (/\ forward_sample(n)
           /\ Nodes[n].list
           /\ SampleEvaluates(Prefixed(prefix, Nodes[n].names)))
          => \A i \in 1..Len(Nodes[n].names) : fn_out_names'[n][i] \in DOMAIN trace']_vars

\* C14: a node registered while the scope of trace.prefix("a") is open inside
\* the scope of trace.prefix("b") gets the names "ba" + n.
C14_NestedPrefix ==
    [][\A n \in NodeIds :
          (/\ forward_sample(n)
           /\ Len(scopes) = 2
           /\ scopes[1].arg = "b" /\ scopes[1].before = ""
           /\ scopes[2].arg = "a")
          => fn_out_names'[n] = Prefixed("ba", Nodes[n].names)]_vars

\* C15: leaving a prefix scope, at the end of its block or by an exception,
\* sets the trace's prefix to what it was just before the scope was entered,
\* and outside of all scopes the prefix is the initial (empty) one.
C15_PrefixRestored ==
    /\ [][prefix_exit => prefix' = scopes[Len(scopes)].before]_vars
    /\ [](scopes = <<>> => prefix = "")

\* An exception has left the inner of two nested scopes, and the prefix is
\* the outer scope's again.
C15_Witness ==
    /\ rpc = "raising"
    /\ opened = 2
    /\ Len(scopes) = 1
    /\ prefix = scopes[1].arg
    /\ prefix # ""

\* C18: a registration with names that are neither a str nor a list changes
\* neither the trace nor the prefix and invokes no function, and it makes
\* forward and _run fail with ValueError.
C18_InvalidNames ==
    /\ [][\A kind \in OtherKinds :
            forward_sample_invalid(kind) =>
                UNCHANGED <<trace, prefix, fn_out_names, calls, order>>]_vars
    /\ [](invalid_names =>
            /\ rpc \in {"raising", "idle"}
            /\ rpc = "idle" => run_result = [outcome |-> "ValueError", sample |-> EmptyDict])

\* _run has failed after a registration with invalid names that was made
\* when the trace held values and a prefix scope was open.
C18_Witness ==
    /\ invalid_names
    /\ rpc = "idle"
    /\ run_result.outcome = "ValueError"
    /\ opened >= 1
    /\ \E n \in NodeIds : calls[n] >= 1

\* C16: within a run no step changes or removes the value of a key that the
\* trace holds, and a mapping that _run returns holds every conditioned
\* variable with its conditioned value.
C16_WriteOnce ==
    /\ [][rpc # "idle" =>
            \A k \in DOMAIN trace : k \in DOMAIN trace' /\ trace'[k] = trace[k]]_vars
    /\ [](run_result.outcome = "ok" =>
            \A k \in DOMAIN conditions :
                k \in DOMAIN run_result.sample /\ run_result.sample[k] = conditions[k])

\* _run has returned from a run in which u was conditioned and the function
\* of the node of u and v was invoked all the same, and in which forward
\* assigned to the conditioned x.
C16_Witness ==
    /\ rpc = "idle"
    /\ run_result.outcome = "ok"
    /\ "u" \in DOMAIN conditions /\ "x" \in DOMAIN conditions
    /\ calls[4] >= 1
    /\ run_result.sample["v"] = FnResult(4, 1)[2]
    /\ run_result.sample["u"] = CondVal("u")

\* C17: for a strictly increasing list idx, the slices of get_index_slices(idx)
\* are non-empty runs of consecutive indices with batch ranges of the same
\* length; the batch ranges start at 0, follow one another and end at the
\* length of idx; batch position k is paired with the k-th index of idx; and
\* the runs are maximal and in increasing order (a run starts above the
\* index that follows the run before it).
C17_IndexSlices ==
    pure_fn = "get_index_slices" =>
        LET idx == pure_in
            sl == pure_out
        IN /\ \A r \in 1..Len(sl) :
                 /\ sl[r][1][2] - sl[r][1][1] = sl[r][2][2] - sl[r][2][1]
                 /\ sl[r][1][2] > sl[r][1][1]
                 /\ sl[r][1][1] = IF r = 1 THEN 0 ELSE sl[r - 1][1][2]
                 /\ sl[r][1][2] <= Len(idx)
                 /\ \A t \in 0..(sl[r][1][2] - sl[r][1][1] - 1) :
                       idx[sl[r][1][1] + t + 1] = sl[r][2][1] + t
                 /\ r > 1 => sl[r][2][1] > sl[r - 1][2][2]
           /\ IF idx = <<>> THEN sl = <<>> ELSE sl # <<>> /\ sl[Len(sl)][1][2] = Len(idx)

\* get_index_slices([2,3,4,7,8,10]) has returned [0,3)->[2,5), [3,5)->[7,9), [5,6)->[10,11).
C17_Witness ==
    /\ pure_fn = "get_index_slices"
    /\ pure_in = <<2, 3, 4, 7, 8, 10>>
    /\ pure_out = << <<<<0, 3>>, <<2, 5>>>>, <<<<3, 5>>, <<7, 9>>>>, <<<<5, 6>>, <<10, 11>>>> >>

\* C19: the length of a Samples store with at least one variable is the
\* leading-dimension size that all its variables share, and when two
\* variables disagree on that size the call fails (AssertionError
\* "Inconsistent lengths in Samples") and returns no number.
C19_SamplesLength ==
    (pure_fn = "len" /\ pure_in # <<>>) =>
        IF \E i, j \in 1..Len(pure_in) : pure_in[i] # pure_in[j]
        THEN pure_out.outcome = "AssertionError"
        ELSE /\ pure_out.outcome = "ok"
             /\ \A i \in 1..Len(pure_in) : pure_out.value = pure_in[i]

\* len() of a store whose variables have sizes 2, 2 and 3 has failed.
C19_Witness ==
    /\ pure_fn = "len"
    /\ pure_in = <<2, 2, 3>>
    /\ pure_out.outcome = "AssertionError"

\* C20: when the resampler is called with a full sample s and targets T, and
\* forward has registered all its nodes, the call returns a result that
\* contains every name of T and every non-target variable of s with the value
\* it has in s; no function of a node without a target name was invoked; and
\* s is what it was before the call.
C20_ResampleFrame ==
    (rpc = "idle" /\ targets.given /\ registered = Len(Nodes)) =>
        /\ run_result.outcome = "ok"
        /\ \A i \in 1..Len(targets.names) : targets.names[i] \in DOMAIN run_result.sample
        /\ \A k \in DOMAIN FullSample :
              ~InList(k, targets.names) =>
                  k \in DOMAIN run_result.sample /\ run_result.sample[k] = FullSample[k]
        /\ \A n \in NodeIds :
              (\A i \in 1..Len(Nodes[n].names) : ~InList(Nodes[n].names[i], targets.names))
                  => calls[n] = 0
        /\ pure_in = FullSample

\* C21: a RepeatDatasetWrapper over a dataset of M rows with repeat R has
\* length M*R, fetching index i in 0..M*R-1 returns underlying row i div R, and
\* each underlying row j is returned for exactly the R consecutive indices
\* j*R .. j*R+R-1.
C21_RepeatWrapper ==
    pure_fn = "repeat" =>
        /\ pure_out.len = pure_in.M * pure_in.R
        /\ Len(pure_out.rows) = pure_out.len
        /\ \A i \in 0..(pure_out.len - 1) : pure_out.rows[i + 1] = i \div pure_in.R
        /\ \A j \in 0..(pure_in.M - 1) :
              {i \in 0..(pure_out.len - 1) : pure_out.rows[i + 1] = j}
                  = (j * pure_in.R)..(j * pure_in.R + pure_in.R - 1)

\* A wrapper over 3 rows with repeat 2 has returned rows 0,0,1,1,2,2.
C21_Witness ==
    /\ pure_fn = "repeat"
    /\ pure_in = [M |-> 3, R |-> 2]
    /\ pure_out = [len |-> 6, rows |-> <<0, 0, 1, 1, 2, 2>>]

\* C22: a simulate call with a cap max_sims = m never has requested more than
\* m samples from the sampler, counting the batches it has finished
\* (total_sims) and the batch it is in (num_sims); every sample requested is
\* written into a row of its own, so this is also the number of rows it fills.
C22_CapRespected ==
    \A p \in DOMAIN call :
        (call[p].op = "simulate" /\ call[p].capped)
            => loc[p].total_sims + loc[p].num_sims <= call[p].max_sims

\* C23: every step that changes the status array or a variable array (or
\* creates them) is taken while the cross-process lock is held.
C23_MutationUnderLock ==
    [][(sim_status' # sim_status \/ data' # data \/ hasData' # hasData) => lock # 0]_vars

\* C24: once a row's status reads FILLED (a lock-free reader may look at any
\* moment), no step writes the row's data in any variable again.
C24_FilledRowsFinal ==
    [][\A j \in Rows, k \in KeySet :
          (j < sim_status.len /\ sim_status.cells[j + 1] = FILLED)
              => data'[k].cells[j + 1] = data[k].cells[j + 1]]_vars

\* The rows whose status participant p had set to FILLED, without having copied
\* any data into them, when it stopped.
Abandoned(p) ==
    IF pc[p] = "crashed" /\ loc[p].ki = 1
    THEN {j \in Rows : loc[p].slices[1][2][1] <= j /\ j < loc[p].slices[1][2][2]}
    ELSE {}

\* C25: the rows a participant had flipped to FILLED when it stopped before
\* copying their data stay FILLED with their initial zero data: they are not
\* among the EMPTY rows sims_required counts, no other participant's batch
\* selects them, and no data is ever written into them.
C25_CrashLeavesZeroRows ==
    \A p \in DOMAIN pc : \A j \in Abandoned(p) :
        /\ sim_status.cells[j + 1] = FILLED
        /\ reserved[j] = {p}
        /\ \A k \in KeySet : data[k].cells[j + 1] = Zero /\ writes[k][j] = 0

\* Participant 1 stopped with abandoned rows, and participant 2 has since
\* finished a simulate call that filled a row and left no row EMPTY.
C25_Witness ==
    /\ Abandoned(1) # {}
    /\ result[2] = [op |-> "simulate", outcome |-> "ok", capped |-> FALSE]
    /\ sims_required = 0
    /\ \E j \in Rows : reserved[j] = {2} /\ \A k \in KeySet : writes[k][j] = 1

\* C26: when a batch enters its critical section, the EMPTY rows it selects
\* (and then marks FILLED and writes) are as many as the samples it requested
\* from the sampler, num_sims, which is the count it returns.
C26_BatchCountsAgree ==
    [][\A p \in DOMAIN pc :
          simulate_batch_lock(p) => Len(FirstEmpty(loc[p].num_sims)) = loc[p].num_sims]_vars

\* C27: the rows a batch selects inside its critical section are the
\* lowest-indexed EMPTY rows of the status array (every EMPTY row below a
\* selected row is selected too, and only EMPTY rows are selected); and when
\* the data of a row is written, the row's status is FILLED already and the
\* writer still holds the lock it took before the status flip.
C27_LowestEmptyFirst ==
    /\ [][\A p \in DOMAIN pc :
            simulate_batch_lock(p) =>
                LET sel == {j \in Rows : p \in reserved'[j] /\ p \notin reserved[j]}
                IN /\ \A j \in sel : j < sim_status.len /\ sim_status.cells[j + 1] = EMPTY
                   /\ \A j \in sel : \A i \in 0..(j - 1) :
                         sim_status.cells[i + 1] = EMPTY => i \in sel
                   /\ Cardinality(sel) = Min(loc[p].num_sims, sims_required)]_vars
    /\ [][\A p \in DOMAIN pc : \A k \in KeySet : \A j \in Rows :
            (simulate_batch_data(p) /\ j < data[k].len
             /\ data'[k].cells[j + 1] # data[k].cells[j + 1])
                => /\ sim_status.cells[j + 1] = FILLED
                   /\ lock = p
                   /\ p \in reserved[j]]_vars

\* A batch has selected rows 1 and 2 of a store whose row 0 was FILLED by the
\* other participant, flipped their status and written the first variable.
C27_Witness ==
    \E p \in DOMAIN pc :
        /\ pc[p] = "copy" /\ loc[p].ki = 2
        /\ loc[p].slices[1][2] = <<1, 3>>
        /\ reserved[0] = {3 - p} /\ reserved[1] = {p} /\ reserved[2] = {p}

\* C28: when the registration of a node evaluates it and thereby invokes the
\* functions of a positional-argument node and of a keyword-argument node,
\* the positional-argument node's function is invoked first.
C28_PositionalBeforeKeyword ==
    [][\A n \in NodeIds :
          forward_sample(n) =>
              \A ia \in 1..Len(Nodes[n].args), ib \in 1..Len(Nodes[n].kwargs) :
                  LET a == Nodes[n].args[ia]
                      b == Nodes[n].kwargs[ib]
                  IN (a.lazy /\ b.lazy /\ calls'[a.node] > calls[a.node]
                      /\ calls'[b.node] > calls[b.node])
                     => \E i \in (Len(order) + 1)..Len(order') :
                           /\ order'[i] = a.node
                           /\ \A j \in (Len(order) + 1)..i : order'[j] # b.node]_vars

\* The nodes that are LazyValue arguments (positional or keyword) of node n,
\* and the nodes reached from n through such arguments, n included.
ArgNodes(n) ==
    {Nodes[n].args[i].node : i \in {i \in 1..Len(Nodes[n].args) : Nodes[n].args[i].lazy}}
    \cup {Nodes[n].kwargs[i].node : i \in {i \in 1..Len(Nodes[n].kwargs) : Nodes[n].kwargs[i].lazy}}
RECURSIVE Reach(_)
Reach(n) == {n} \cup UNION {Reach(a) : a \in ArgNodes(n)}

C30_WorkersPartitionChunks ==
    (pure_fn = "iter" /\ pure_in.num_workers >= 1) =>
        LET ch == pure_out.chunks
            W == pure_in.num_workers
            ds == pure_in.ds
        IN /\ \A w \in 0..(W - 1) :
                 \A i \in ch[w], j \in ch[w] : \A m \in i..j : m \in ch[w]
           /\ \A w \in 0..(W - 1), v \in 0..(W - 1) :
                 w < v => /\ ch[w] \cap ch[v] = {}
                          /\ \A i \in ch[w], j \in ch[v] : i < j
           /\ UNION {ch[w] : w \in 0..(W - 1)} = 0..(ds.n_chunks - 1)
           /\ (ds.offset = 0 /\ ds.n_samples = ds.store_len)
                 => \A r \in 0..(ds.store_len - 1) : pure_out.yields[r] = 1

\* Three workers have passed over a store of 4 rows in chunks of 1: the
\* workers got chunks {0,1}, {2,3} and none.
C30_Witness ==
    /\ pure_fn = "iter"
    /\ pure_in.num_workers = 3
    /\ pure_in.ds = [store_len |-> 4, chunk_size |-> 1, offset |-> 0, n_samples |-> 4, n_chunks |-> 4]
    /\ pure_out.chunks = [w \in 0..2 |-> IF w = 0 THEN {0, 1} ELSE IF w = 1 THEN {2, 3} ELSE {}]
    /\ \A r \in 0..3 : pure_out.yields[r] = 1

\* C31: one pass over a dataset made with idx_range = (lo, hi) yields only
\* rows whose index lies in lo..hi-1 (offset = lo, n_samples = hi - lo), for
\* every chunk_size, store length and number of workers.
C31_YieldsInsideRange ==
    pure_fn = "iter" =>
        \A r \in DOMAIN pure_out.yields :
            pure_out.yields[r] > 0
                => /\ pure_in.ds.offset <= r
                   /\ r < pure_in.ds.offset + pure_in.ds.n_samples

====
